---- MODULE Spec2Model ----
(***************************************************************************)
(* Generalized Levenshtein distance of levenshtein.py: the recursive       *)
(* function lev, the dynamic program dynprog (cost matrix M, parent matrix *)
(* P) and the backtracking routine explain_dynprog.                        *)
(*                                                                         *)
(* Python sequences are 0-indexed; the TLA+ sequences x and y are          *)
(* 1-indexed, so the code's x[ix - 1] is x[ix] here.  The matrices keep    *)
(* the code's indices 0..nx and 0..ny.                                     *)
(***************************************************************************)
EXTENDS Integers, Sequences, FiniteSets, TLC

\* Longest input sequence explored.
MaxLen == 2

\* Elements of the input sequences.
Alphabet == {"a", "b"}

\* All sequences over Alphabet of length 0..MaxLen.
Seqs == UNION {[1..n -> Alphabet] : n \in 0..MaxLen}

\* dict_op: the edit operation codes.
MatchOp == 0
InsertOp == 1
DeleteOp == 2

\* The default cost functions of dynprog and lev.
DefaultInsertCost == 1
DefaultDeleteCost == 2
DefaultMismatchCost == 4

DefaultInsert == [c \in Alphabet |-> DefaultInsertCost]
DefaultDelete == [c \in Alphabet |-> DefaultDeleteCost]
DefaultMatch ==
    [p \in Alphabet \X Alphabet |->
        IF p[1] = p[2] THEN 0 ELSE DefaultMismatchCost]

DefaultCostModel ==
    [insert_cost |-> DefaultInsert,
     delete_cost |-> DefaultDelete,
     match_cost |-> DefaultMatch]

\* Cost functions a caller may pass instead of the defaults: element
\* dependent ones, a cheap substitution, a match cost that is not zero on
\* equal elements, and an insert cost that is negative.
InsertCosts ==
    {DefaultInsert,
     [c \in Alphabet |-> IF c = "a" THEN 1 ELSE 3],
     [c \in Alphabet |-> 0 - 1]}

DeleteCosts ==
    {DefaultDelete,
     [c \in Alphabet |-> IF c = "a" THEN 1 ELSE 0]}

MatchCosts ==
    {DefaultMatch,
     [p \in Alphabet \X Alphabet |-> IF p[1] = p[2] THEN 0 ELSE 1],
     [p \in Alphabet \X Alphabet |-> IF p = <<"a", "b">> THEN 2 ELSE 1]}

CostModels ==
    [insert_cost : InsertCosts, delete_cost : DeleteCosts, match_cost : MatchCosts]

VARIABLES
    x,          \* dynprog's first sequence
    y,          \* dynprog's second sequence
    costs,      \* the cost functions passed to dynprog (and to lev)
    ex,         \* explain_dynprog's first sequence
    ey,         \* explain_dynprog's second sequence
    M,          \* cost matrix
    P,          \* parent matrix
    ix,         \* loop index of dynprog, then of explain_dynprog
    iy,         \* loop index of dynprog, then of explain_dynprog
    L,          \* explain_dynprog's list of operations, last operation first
    result,     \* the list explain_dynprog returns
    levResult,  \* the value of lev(x, y, costs)
    pc          \* position in the program

vars == <<x, y, costs, ex, ey, M, P, ix, iy, L, result, levResult, pc>>

----------------------------------------------------------------------------
\* Helpers

\* sum([f(c) for c in s])
RECURSIVE SumCost(_, _)
SumCost(f, s) ==
    IF s = <<>> THEN 0 ELSE SumCost(f, SubSeq(s, 1, Len(s) - 1)) + f[s[Len(s)]]

\* np.cumsum([f(c) for c in s])[k - 1]: the sum over the first k elements.
CumSum(f, s, k) == SumCost(f, SubSeq(s, 1, k))

\* Fault: the last minimal entry instead of the first.
ArgMinLast(l) ==
    (CHOOSE k \in 1..Len(l) :
        /\ \A m \in 1..Len(l) : l[k] <= l[m]
        /\ \A m \in (k + 1)..Len(l) : l[m] > l[k]) - 1

\* Fault: the first maximal entry instead of the first minimal one.
ArgMax(l) ==
    (CHOOSE k \in 1..Len(l) :
        /\ \A m \in 1..Len(l) : l[k] >= l[m]
        /\ \A m \in 1..(k - 1) : l[m] < l[k]) - 1

\* np.argmin(L): the 0-based index of the first minimal entry of L.
ArgMin(l) ==
    (CHOOSE k \in 1..Len(l) :
        /\ \A m \in 1..Len(l) : l[k] <= l[m]
        /\ \A m \in 1..(k - 1) : l[m] > l[k]) - 1

\* list(reversed(l))
Reversed(l) == [k \in 1..Len(l) |-> l[Len(l) + 1 - k]]

\* The strings explain_dynprog appends, as their whitespace-separated words:
\* ' match {} and {} '.format(a, b), 'insert ' + str(b), 'delete ' + str(a).
MatchStr(a, b) == <<"match", a, "and", b>>
InsertStr(b) == <<"insert", b>>
DeleteStr(a) == <<"delete", a>>

----------------------------------------------------------------------------
\* lev

\* lev(a, b, insert_cost, delete_cost, match_cost).  The first test returns
\* whenever a is non-empty and the second whenever b is non-empty, so the
\* min(...) is reached only with both sequences empty; its first operand is
\* then lev(a[:-1], b[:-1]) = lev([], []) again, and the recursion never
\* ends: Python raises RecursionError.
\* The result is [raised, value]: the exception raised ("none" when the call
\* returns) and the value returned.
Lev(a, b, c) ==
    IF a # <<>> THEN [raised |-> "none", value |-> SumCost(c.insert_cost, b)]
    ELSE IF b # <<>> THEN [raised |-> "none", value |-> SumCost(c.delete_cost, a)]
    ELSE [raised |-> "RecursionError", value |-> 0]

----------------------------------------------------------------------------
\* dynprog

\* Fault: the insert and delete costs and codes of the boundary exchanged.
InitMatricesSwapped(sx, sy, c) ==
    [M |-> [i \in 0..Len(sx) |-> [j \in 0..Len(sy) |->
                IF j = 0 THEN CumSum(c.insert_cost, sx, i)
                ELSE IF i = 0 THEN CumSum(c.delete_cost, sy, j)
                ELSE 0]],
     P |-> [i \in 0..Len(sx) |-> [j \in 0..Len(sy) |->
                IF j = 0 /\ i >= 1 THEN InsertOp
                ELSE IF i = 0 /\ j >= 1 THEN DeleteOp
                ELSE 0]]]

\* Lines 83-93: M and P allocated as zeros, then column 0 and row 0 set.
InitMatrices(sx, sy, c) ==
    [M |-> [i \in 0..Len(sx) |-> [j \in 0..Len(sy) |->
                IF j = 0 THEN CumSum(c.delete_cost, sx, i)
                ELSE IF i = 0 THEN CumSum(c.insert_cost, sy, j)
                ELSE 0]],
     P |-> [i \in 0..Len(sx) |-> [j \in 0..Len(sy) |->
                IF j = 0 /\ i >= 1 THEN DeleteOp
                ELSE IF i = 0 /\ j >= 1 THEN InsertOp
                ELSE 0]]]

\* Fault: the insert candidate read from M[ix - 1, iy - 1].
CandidatesStale(m, sx, sy, c, i, j) ==
    <<m[i - 1][j - 1] + c.match_cost[<<sx[i], sy[j]>>],
      m[i - 1][j - 1] + c.insert_cost[sy[j]],
      m[i - 1][j] + c.delete_cost[sx[i]]>>

\* Lines 100-102: the list L of the three candidate costs of cell (i, j).
Candidates(m, sx, sy, c, i, j) ==
    <<m[i - 1][j - 1] + c.match_cost[<<sx[i], sy[j]>>],
      m[i][j - 1] + c.insert_cost[sy[j]],
      m[i - 1][j] + c.delete_cost[sx[i]]>>

\* Fault: M[ix][iy] = L[0] instead of L[i_min].
FillOneFirst(mp, sx, sy, c, i, j) ==
    LET l == Candidates(mp.M, sx, sy, c, i, j)
        i_min == ArgMin(l)
    IN  [M |-> [mp.M EXCEPT ![i][j] = l[1]],
         P |-> [mp.P EXCEPT ![i][j] = i_min]]

\* Lines 100-105: the body of the inner loop for cell (i, j).
FillOne(mp, sx, sy, c, i, j) ==
    LET l == Candidates(mp.M, sx, sy, c, i, j)
        i_min == ArgMin(l)
    IN  [M |-> [mp.M EXCEPT ![i][j] = l[i_min + 1]],
         P |-> [mp.P EXCEPT ![i][j] = i_min]]

\* Lines 95-96: the cell after (i, j) in the two nested loops.
NextRow(sy, i, j) == IF j < Len(sy) THEN i ELSE i + 1
NextCol(sy, i, j) == IF j < Len(sy) THEN j + 1 ELSE 1

\* Lines 95-105: the loops from cell (i, j) on.
RECURSIVE FillFrom(_, _, _, _, _, _)
FillFrom(mp, sx, sy, c, i, j) ==
    IF i > Len(sx) \/ Len(sy) = 0 THEN mp
    ELSE FillFrom(FillOne(mp, sx, sy, c, i, j), sx, sy, c,
                  NextRow(sy, i, j), NextCol(sy, i, j))

\* dynprog(sx, sy, insert_cost, delete_cost, match_cost) as a whole.
Dynprog(sx, sy, c) == FillFrom(InitMatrices(sx, sy, c), sx, sy, c, 1, 1)

----------------------------------------------------------------------------
\* State machine

Init ==
    /\ x \in Seqs
    /\ y \in Seqs
    /\ costs \in CostModels
    /\ ex = x
    /\ ey = y
    /\ M = <<>>
    /\ P = <<>>
    /\ ix = 0
    /\ iy = 0
    /\ L = <<>>
    /\ result = <<>>
    /\ levResult = [raised |-> "notcalled", value |-> 0]
    /\ pc = "dynprog"

\* explain_dynprog called with sequences that need not be those the
\* matrices were computed for.
InitMismatch ==
    /\ x \in Seqs
    /\ y \in Seqs
    /\ costs = DefaultCostModel
    /\ ex \in Seqs
    /\ ey \in Seqs
    /\ M = <<>>
    /\ P = <<>>
    /\ ix = 0
    /\ iy = 0
    /\ L = <<>>
    /\ result = <<>>
    /\ levResult = [raised |-> "notcalled", value |-> 0]
    /\ pc = "dynprog"

\* dynprog, lines 77-93.
DynprogInit ==
    /\ pc = "dynprog"
    /\ M' = InitMatrices(x, y, costs).M
    /\ P' = InitMatrices(x, y, costs).P
    /\ ix' = 1
    /\ iy' = 1
    /\ pc' = "fill"
    /\ UNCHANGED <<x, y, costs, ex, ey, L, result, levResult>>

\* dynprog, lines 95-105: one iteration of the inner loop.
FillCell ==
    /\ pc = "fill"
    /\ ix <= Len(x)
    /\ Len(y) >= 1
    /\ M' = FillOne([M |-> M, P |-> P], x, y, costs, ix, iy).M
    /\ P' = FillOne([M |-> M, P |-> P], x, y, costs, ix, iy).P
    /\ ix' = NextRow(y, ix, iy)
    /\ iy' = NextCol(y, ix, iy)
    /\ UNCHANGED <<x, y, costs, ex, ey, L, result, levResult, pc>>

\* dynprog, line 106: the loops are over, M and P are returned.
DynprogReturn ==
    /\ pc = "fill"
    /\ (ix > Len(x) \/ Len(y) = 0)
    /\ pc' = "returned"
    /\ UNCHANGED <<x, y, costs, ex, ey, M, P, ix, iy, L, result, levResult>>

\* Fault: ix, iy = nx, nx.
ExplainInitSquare ==
    /\ pc = "returned"
    /\ L' = <<>>
    /\ ix' = Len(ex)
    /\ iy' = Len(ex)
    /\ pc' = "walk"
    /\ UNCHANGED <<x, y, costs, ex, ey, M, P, result, levResult>>

\* explain_dynprog, lines 118-121.
ExplainInit ==
    /\ pc = "returned"
    /\ L' = <<>>
    /\ ix' = Len(ex)
    /\ iy' = Len(ey)
    /\ pc' = "walk"
    /\ UNCHANGED <<x, y, costs, ex, ey, M, P, result, levResult>>

\* P[i, j] raises IndexError outside the shape of P.
InShape(i, j) == i \in DOMAIN P /\ j \in DOMAIN P[i]

\* Fault: the insert branch lowers ix instead of iy.
WalkStepWrongIndex ==
    /\ pc = "walk"
    /\ ix > 0
    /\ iy > 0
    /\ IF ~InShape(ix, iy)
       THEN /\ pc' = "IndexError"
            /\ UNCHANGED <<ix, iy, L>>
       ELSE /\ pc' = pc
            /\ IF P[ix][iy] = 0
               THEN /\ L' = Append(L, MatchStr(ex[ix], ey[iy]))
                    /\ ix' = ix - 1
                    /\ iy' = iy - 1
               ELSE IF P[ix][iy] = 1
               THEN /\ L' = Append(L, InsertStr(ey[iy]))
                    /\ ix' = ix - 1
                    /\ iy' = iy
               ELSE /\ L' = Append(L, DeleteStr(ex[ix]))
                    /\ ix' = ix - 1
                    /\ iy' = iy
    /\ UNCHANGED <<x, y, costs, ex, ey, M, P, result, levResult>>

\* explain_dynprog, lines 122-132: one iteration of the first loop.
WalkStep ==
    /\ pc = "walk"
    /\ ix > 0
    /\ iy > 0
    /\ IF ~InShape(ix, iy)
       THEN /\ pc' = "IndexError"
            /\ UNCHANGED <<ix, iy, L>>
       ELSE /\ pc' = pc
            /\ IF P[ix][iy] = 0
               THEN /\ L' = Append(L, MatchStr(ex[ix], ey[iy]))
                    /\ ix' = ix - 1
                    /\ iy' = iy - 1
               ELSE IF P[ix][iy] = 1
               THEN /\ L' = Append(L, InsertStr(ey[iy]))
                    /\ ix' = ix
                    /\ iy' = iy - 1
               ELSE /\ L' = Append(L, DeleteStr(ex[ix]))
                    /\ ix' = ix - 1
                    /\ iy' = iy
    /\ UNCHANGED <<x, y, costs, ex, ey, M, P, result, levResult>>

\* explain_dynprog, lines 134-136: one iteration of the second loop.
DrainDelete ==
    /\ pc = "walk"
    /\ ~(ix > 0 /\ iy > 0)
    /\ ix > 0
    /\ L' = Append(L, DeleteStr(ex[ix]))
    /\ ix' = ix - 1
    /\ UNCHANGED <<x, y, costs, ex, ey, M, P, iy, result, levResult, pc>>

\* explain_dynprog, lines 137-139: one iteration of the third loop.
DrainInsert ==
    /\ pc = "walk"
    /\ ~(ix > 0)
    /\ iy > 0
    /\ L' = Append(L, InsertStr(ey[iy]))
    /\ iy' = iy - 1
    /\ UNCHANGED <<x, y, costs, ex, ey, M, P, ix, result, levResult, pc>>

\* explain_dynprog, line 141.
ExplainReturn ==
    /\ pc = "walk"
    /\ ~(ix > 0)
    /\ ~(iy > 0)
    /\ result' = Reversed(L)
    /\ pc' = "done"
    /\ UNCHANGED <<x, y, costs, ex, ey, M, P, ix, iy, L, levResult>>

\* lev called on dynprog's arguments, to compare the two distances.
LevCall ==
    /\ pc = "done"
    /\ levResult' = Lev(x, y, costs)
    /\ pc' = "checked"
    /\ UNCHANGED <<x, y, costs, ex, ey, M, P, ix, iy, L, result>>

Next ==
    \/ DynprogInit
    \/ FillCell
    \/ DynprogReturn
    \/ ExplainInit
    \/ WalkStep
    \/ DrainDelete
    \/ DrainInsert
    \/ ExplainReturn
    \/ LevCall

Spec == Init /\ [][Next]_vars

\* The program is sequential and runs to its end.
FairSpec == Init /\ [][Next]_vars /\ WF_vars(Next)

SpecMismatch == InitMismatch /\ [][Next]_vars

----------------------------------------------------------------------------
\* Definitions used by the properties

nx == Len(x)
ny == Len(y)

\* Every cost of the model is >= 0.
NonNegative(c) ==
    /\ \A e \in Alphabet : c.insert_cost[e] >= 0 /\ c.delete_cost[e] >= 0
    /\ \A p \in Alphabet \X Alphabet : c.match_cost[p] >= 0

\* dynprog has returned M and P.
DynprogReturned == pc \notin {"dynprog", "fill"}

\* explain_dynprog has been called.
ExplainCalled == pc \notin {"dynprog", "fill", "returned"}

\* explain_dynprog has returned its list.
ExplainReturned == pc \in {"done", "checked"}

\* The cost the cost model charges for one emitted operation.
OpCost(op, c) ==
    IF op[1] = "match" THEN c.match_cost[<<op[2], op[4]>>]
    ELSE IF op[1] = "insert" THEN c.insert_cost[op[2]]
    ELSE c.delete_cost[op[2]]

\* The total cost of an edit script.
RECURSIVE ScriptCost(_, _)
ScriptCost(s, c) ==
    IF s = <<>> THEN 0 ELSE OpCost(Head(s), c) + ScriptCost(Tail(s), c)

\* Applying the operations s[k..] to src from its element i on, out being
\* what has been written so far.  A match or a delete consumes the source
\* element it names; a match writes the source element (copy) or the target
\* element it names (~copy); an insert writes its element.  The result is
\* <<"invalid">> when an operation names another element than the one at
\* hand or the script does not consume the whole source.
RECURSIVE ReplayFrom(_, _, _, _, _, _)
ReplayFrom(s, k, src, i, out, copy) ==
    IF k > Len(s) THEN (IF i = Len(src) + 1 THEN out ELSE <<"invalid">>)
    ELSE IF s[k][1] = "insert"
    THEN ReplayFrom(s, k + 1, src, i, Append(out, s[k][2]), copy)
    ELSE IF i > Len(src) \/ src[i] # s[k][2] THEN <<"invalid">>
    ELSE IF s[k][1] = "delete" THEN ReplayFrom(s, k + 1, src, i + 1, out, copy)
    ELSE ReplayFrom(s, k + 1, src, i + 1,
                    Append(out, IF copy THEN src[i] ELSE s[k][4]), copy)

ReplayCopy(s, src) == ReplayFrom(s, 1, src, 1, <<>>, TRUE)
ReplaySubstitute(s, src) == ReplayFrom(s, 1, src, 1, <<>>, FALSE)

\* All sequences of match/insert/delete that take i source elements to j
\* target elements, by their last operation.
RECURSIVE Alignments(_, _)
Alignments(i, j) ==
    IF i = 0 /\ j = 0 THEN {<<>>}
    ELSE (IF i > 0 /\ j > 0
          THEN {Append(s, "match") : s \in Alignments(i - 1, j - 1)} ELSE {})
         \cup (IF j > 0
          THEN {Append(s, "insert") : s \in Alignments(i, j - 1)} ELSE {})
         \cup (IF i > 0
          THEN {Append(s, "delete") : s \in Alignments(i - 1, j)} ELSE {})

\* The cost of the operations s[k..] when i source and j target elements
\* have been consumed.
RECURSIVE AlignCostFrom(_, _, _, _)
AlignCostFrom(s, k, i, j) ==
    IF k > Len(s) THEN 0
    ELSE IF s[k] = "match"
    THEN costs.match_cost[<<x[i + 1], y[j + 1]>>] + AlignCostFrom(s, k + 1, i + 1, j + 1)
    ELSE IF s[k] = "insert"
    THEN costs.insert_cost[y[j + 1]] + AlignCostFrom(s, k + 1, i, j + 1)
    ELSE costs.delete_cost[x[i + 1]] + AlignCostFrom(s, k + 1, i + 1, j)

AlignCost(s) == AlignCostFrom(s, 1, 0, 0)

\* The sum of f over the first k elements of s.
RECURSIVE PrefixCost(_, _, _)
PrefixCost(f, s, k) == IF k = 0 THEN 0 ELSE PrefixCost(f, s, k - 1) + f[s[k]]

\* Cell (i, j) has been filled by the loops of dynprog.
Filled(i, j) ==
    /\ pc # "dynprog"
    /\ i \in 1..nx
    /\ j \in 1..ny
    /\ pc = "fill" => (i < ix \/ (i = ix /\ j < iy))

CandMatch(i, j) == M[i - 1][j - 1] + costs.match_cost[<<x[i], y[j]>>]
CandInsert(i, j) == M[i][j - 1] + costs.insert_cost[y[j]]
CandDelete(i, j) == M[i - 1][j] + costs.delete_cost[x[i]]

MaxInsertCost(c) ==
    CHOOSE v \in {c.insert_cost[e] : e \in Alphabet} :
        \A e \in Alphabet : c.insert_cost[e] <= v

Max(a, b) == IF a >= b THEN a ELSE b

\* A cost function was evaluated by dynprog and returned a negative value.
NegativeEvaluated ==
    \/ \E k \in 1..nx : costs.delete_cost[x[k]] < 0
    \/ \E k \in 1..ny : costs.insert_cost[y[k]] < 0
    \/ \E i \in 1..nx : \E j \in 1..ny : costs.match_cost[<<x[i], y[j]>>] < 0

\* The shape of P is not (len(ex) + 1) x (len(ey) + 1).
ShapeMismatch == Len(ex) # nx \/ Len(ey) # ny

----------------------------------------------------------------------------
\* Properties

\* C1: with non-negative costs, the costs of the operations of the script
\* explain_dynprog(x, y, M, P) returns for the matrices of dynprog(x, y)
\* add up to M[nx][ny].
C1_RoundTrip ==
    (ExplainReturned /\ NonNegative(costs))
        => ScriptCost(result, costs) = M[nx][ny]

\* A script with a match, an insert and a delete has been returned.
C1_Witness ==
    /\ pc = "done"
    /\ NonNegative(costs)
    /\ \A t \in {"match", "insert", "delete"} :
          \E k \in 1..Len(result) : result[k][1] = t
    /\ ScriptCost(result, costs) = M[nx][ny]
    /\ M[nx][ny] > 0

\* C2 as stated: replaying the returned script on x, a match copying the
\* source element, gives y.
C2_ReplayCopy == ExplainReturned => ReplayCopy(result, x) = y

\* C2 amended: replaying the returned script on x, a match writing the
\* target element it names, gives y.
C2_ReplaySubstitute == ExplainReturned => ReplaySubstitute(result, x) = y

\* A script that matches two different elements has been returned.
C2_Witness ==
    /\ pc = "done"
    /\ \E k \in 1..Len(result) :
          result[k][1] = "match" /\ result[k][2] # result[k][4]
    /\ \E k \in 1..Len(result) : result[k][1] # "match"
    /\ ReplaySubstitute(result, x) = y

\* C3: with non-negative costs, every cell M[i][j] of the returned matrix is
\* the least total cost of a sequence of match/insert/delete operations
\* that transforms x[0:i] into y[0:j].
C3_Minimal ==
    (pc = "returned" /\ NonNegative(costs)) =>
        \A i \in 0..nx : \A j \in 0..ny :
            /\ \A s \in Alignments(i, j) : M[i][j] <= AlignCost(s)
            /\ \E s \in Alignments(i, j) : M[i][j] = AlignCost(s)

\* A matrix for two sequences of length >= 2 whose distance is below the
\* cost of deleting all of x and inserting all of y.
C3_Witness ==
    /\ pc = "returned"
    /\ NonNegative(costs)
    /\ nx >= 2
    /\ ny >= 2
    /\ M[nx][ny] > 0
    /\ M[nx][ny] < M[nx][0] + M[0][ny]
    /\ \E s \in Alignments(nx, ny) : AlignCost(s) > M[nx][ny]

\* C4: in every filled cell (i, j), P[i][j] is the first minimal candidate
\* in the order match, insert, delete; it is match whenever the match
\* candidate is minimal.
C4_TieBreak ==
    \A i \in 1..nx : \A j \in 1..ny :
        Filled(i, j) =>
            /\ (CandMatch(i, j) <= CandInsert(i, j) /\ CandMatch(i, j) <= CandDelete(i, j))
                  => P[i][j] = MatchOp
            /\ (CandInsert(i, j) < CandMatch(i, j) /\ CandInsert(i, j) <= CandDelete(i, j))
                  => P[i][j] = InsertOp
            /\ (CandDelete(i, j) < CandMatch(i, j) /\ CandDelete(i, j) < CandInsert(i, j))
                  => P[i][j] = DeleteOp

\* The cell just filled has its match and insert candidates equal and
\* minimal, and holds match.
C4_Witness ==
    /\ pc = "fill"
    /\ \E i \in 1..nx : \E j \in 1..ny :
          /\ Filled(i, j)
          /\ NextRow(y, i, j) = ix
          /\ NextCol(y, i, j) = iy
          /\ CandMatch(i, j) = CandInsert(i, j)
          /\ CandMatch(i, j) < CandDelete(i, j)
          /\ P[i][j] = MatchOp

\* C5: from the boundary initialisation on, M[0][0] = 0, column 0 holds the
\* running sums of the delete costs of x with P = delete, and row 0 the
\* running sums of the insert costs of y with P = insert; so the distance to
\* or from an empty sequence is the sum of the delete or insert costs.
C5_Boundary ==
    pc # "dynprog" =>
        /\ M[0][0] = 0
        /\ \A i \in 1..nx :
              M[i][0] = PrefixCost(costs.delete_cost, x, i) /\ P[i][0] = DeleteOp
        /\ \A j \in 1..ny :
              M[0][j] = PrefixCost(costs.insert_cost, y, j) /\ P[0][j] = InsertOp
        /\ (DynprogReturned /\ y = <<>>)
              => M[nx][ny] = PrefixCost(costs.delete_cost, x, nx)
        /\ (DynprogReturned /\ x = <<>>)
              => M[nx][ny] = PrefixCost(costs.insert_cost, y, ny)

\* Matrices returned for two sequences of length >= 2 under element
\* dependent costs, with a 0 cost among them.
C5_Witness ==
    /\ pc = "returned"
    /\ nx >= 2
    /\ ny >= 2
    /\ M[1][0] = 1
    /\ M[2][0] = 1
    /\ M[0][1] = 3
    /\ M[0][2] = 4
    /\ P[2][0] = DeleteOp
    /\ P[0][2] = InsertOp

\* C6 as stated: the value lev(x, y) returns is dynprog's M[nx][ny].
C6_LevEqualsDynprog ==
    pc = "checked" => (levResult.raised = "none" /\ levResult.value = M[nx][ny])

\* C7 as stated: dynprog does not return matrices when a cost function has
\* returned a negative value.
C7_InvalidCostModel == (DynprogReturned /\ NegativeEvaluated) => pc = "InvalidCostModel"

\* C8 as stated: explain_dynprog called with a P of another shape than
\* (len(ex) + 1) x (len(ey) + 1) fails with DimensionMismatch, no operation
\* emitted.
C8_DimensionMismatch ==
    (ExplainCalled /\ ShapeMismatch) => (pc = "DimensionMismatch" /\ L = <<>>)

\* C9: with non-negative costs, appending any element e to y raises the
\* distance by at most the largest insert cost over the alphabet.
C9_Monotone ==
    (pc = "returned" /\ NonNegative(costs)) =>
        \A e \in Alphabet :
            Dynprog(x, Append(y, e), costs).M[nx][ny + 1]
                <= M[nx][ny] + MaxInsertCost(costs)

\* Appending an element to a non-empty y raises the distance from a
\* non-empty x by exactly the largest insert cost.
C9_Witness ==
    /\ pc = "returned"
    /\ NonNegative(costs)
    /\ nx >= 1
    /\ ny >= 1
    /\ \E e \in Alphabet :
          Dynprog(x, Append(y, e), costs).M[nx][ny + 1]
              = M[nx][ny] + MaxInsertCost(costs)
    /\ \E e \in Alphabet :
          Dynprog(x, Append(y, e), costs).M[nx][ny + 1] < M[nx][ny]

\* C10: on the matrices of dynprog(x, y), the walk of explain_dynprog
\* starts at (nx, ny), keeps 0 <= ix <= nx and 0 <= iy <= ny, lowers ix, iy
\* or both by exactly one on every step, emitting one operation, and ends
\* at (0, 0) with between max(nx, ny) and nx + ny operations returned.
C10_Walk ==
    /\ [](pc \in {"walk", "done"} => (ix \in 0..nx /\ iy \in 0..ny))
    /\ [](pc # "IndexError")
    /\ [][(pc = "returned" /\ pc' = "walk") => (ix' = nx /\ iy' = ny /\ L' = <<>>)]_vars
    /\ [][(pc = "walk" /\ pc' = "walk") =>
            /\ <<ix', iy'>> \in {<<ix - 1, iy>>, <<ix, iy - 1>>, <<ix - 1, iy - 1>>}
            /\ Len(L') = Len(L) + 1]_vars
    /\ [](pc = "done" =>
            /\ ix = 0
            /\ iy = 0
            /\ Len(result) >= Max(nx, ny)
            /\ Len(result) <= nx + ny)
    /\ (pc = "walk") ~> (pc = "done")

\* A walk over two sequences of length >= 2 has ended with more than
\* max(nx, ny) and fewer than nx + ny operations.
C10_Witness ==
    /\ pc = "done"
    /\ nx >= 2
    /\ ny >= 2
    /\ Len(result) > Max(nx, ny)
    /\ Len(result) < nx + ny
    /\ ix = 0
    /\ iy = 0

====
